---------------------------- MODULE Spec2Model ----------------------------
(* target-parquet: a Singer target that persists record streams as parquet *)
(* files.  Two pipelines of the repository are modelled:                    *)
(*   - persist_messages (target_parquet/__init__.py): a producer that reads *)
(*     the messages and a consumer process fed through a queue, and main,   *)
(*     which emits the returned state;                                      *)
(*   - the ParquetSink pipeline of TargetParquet (target_parquet/target.py, *)
(*     target_parquet/utils/parquet.py).                                    *)
EXTENDS Integers, Sequences, FiniteSets, TLC

(***************************************************************************)
(* Bounds of the model                                                     *)
(***************************************************************************)
MaxMsgs == 4

Streams == {"s1", "s2"}
SchemaVersions == {"A", "B"}
StateValues == {"st1", "st2"}
None == "None"
\* int(config.get("file_size", -1)): the default, zero and a positive size
FileSizes == {-1, 0, 1}

(***************************************************************************)
(* The input: one line per message.  "ok" of a RECORD is the verdict of    *)
(* the stream's Draft4Validator on the record.                             *)
(***************************************************************************)
RecordMsgs == [type : {"RECORD"}, stream : Streams, ok : BOOLEAN]
StateMsgs == [type : {"STATE"}, value : StateValues]
SchemaMsgs == [type : {"SCHEMA"}, stream : Streams, schema : SchemaVersions]
\* a message of a type singer.parse_message knows and the producer does not
OtherMsgs == [type : {"ACTIVATE_VERSION"}]
\* a line that singer.parse_message cannot parse
BadMsgs == [type : {"UNPARSEABLE"}]
\* a message of a type singer.parse_message does not know: it returns None
\* for it
ForeignMsgs == [type : {"BATCH"}]
Messages == RecordMsgs \cup StateMsgs \cup SchemaMsgs \cup OtherMsgs \cup BadMsgs
            \cup ForeignMsgs

VARIABLES
    input,          \* the messages read from the message buffer so far
    ppc,            \* producer: "loop", "returned" or "raised"
    schemas,        \* producer's schemas: stream -> flattened schema
    state,          \* producer's state (PendingState)
    queue,          \* w_queue: the items put and not yet got
    cpc,            \* consumer: "loop" or "done"
    received,       \* the items the consumer has got
    records,        \* consumer's records: stream -> buffered records
    files_created,  \* consumer's files_created: the files written
    file_size,      \* main's file_size argument of persist_messages
    mpc,            \* main: "persist", "joined", "emitted" or "aborted"
    stdout,         \* the lines main has written to stdout
    \* TargetParquet / ParquetSink
    tinput,         \* the messages the target has read so far
    tpc,            \* target: "listen", "finalized" or "failed"
    max_batch_size,         \* config "max_batch_size"
    max_pyarrow_table_size, \* config "max_pyarrow_table_size"
    target,         \* the sinks by stream name, the batches and files so far
    target_lo,      \* the same run with max_pyarrow_table_size lowered by one
    extra_fields,       \* config "extra_fields": name -> value, <<>> if unset
    extra_fields_types, \* config "extra_fields_types": name -> type, <<>> if unset
    partition_cols,     \* config "partition_cols": the names, {} if unset
    \* the data of a sink: records, flattened records and tables
    raw_records,    \* the records a sink has processed
    context_records, \* the flattened records it has buffered
    tables,         \* the tables created from them
    \* the conversion of one schema property
    field_in,       \* the arguments of _field_type_to_pyarrow_field
    pyarrow_field,  \* its result
    \* file names
    compression_method,         \* config "compression_method", None if unset
    streams_in_separate_folder, \* argument of persist_messages
    now,            \* the reading of the clock
    written,        \* the paths of the files written
    \* the state message of TargetParquet
    latest_state,   \* the state handed to _write_state_message, <<>> if none
    state_json      \* the lines _write_state_message has written

PersistVars == <<input, ppc, schemas, state, queue, cpc, received, records,
                 files_created, file_size, mpc, stdout>>
TargetVars == <<tinput, tpc, max_batch_size, max_pyarrow_table_size, target,
                target_lo>>
ConfigVars == <<extra_fields, extra_fields_types, partition_cols>>
TableVars == <<raw_records, context_records, tables>>
FieldVars == <<field_in, pyarrow_field>>
NameVars == <<compression_method, streams_in_separate_folder, now, written>>
EncoderVars == <<latest_state, state_json>>
OtherVars == <<ConfigVars, TableVars, FieldVars, NameVars, EncoderVars>>
vars == <<PersistVars, TargetVars, OtherVars>>

\* defaults of the config properties
DefaultMaxBatchSize == 10000
DefaultMaxPyarrowTableSize == 800

(***************************************************************************)
(* Queue items                                                             *)
(***************************************************************************)
EOF == [mtype |-> "EOF"]
RecordItem(stream, id, schema) ==
    [mtype |-> "RECORD", stream |-> stream, id |-> id, schema |-> schema]
SchemaItem(stream, schema) ==
    [mtype |-> "SCHEMA", stream |-> stream, schema |-> schema]

\* dict assignment d[k] = v
Put(d, k, v) == [x \in (DOMAIN d) \cup {k} |-> IF x = k THEN v ELSE d[x]]

\* no extra field and no partition column is configured
ConfigUnset ==
    /\ extra_fields = <<>>
    /\ extra_fields_types = <<>>
    /\ partition_cols = {}

\* no record has been processed as data
TableIdle ==
    /\ raw_records = <<>>
    /\ context_records = <<>>
    /\ tables = <<>>

\* no schema property is being converted
FieldIdle ==
    /\ field_in = <<>>
    /\ pyarrow_field = <<>>

\* no file name has been built
NameIdle ==
    /\ compression_method = None
    /\ streams_in_separate_folder = FALSE
    /\ now = 1
    /\ written = <<>>

\* no state message is being written
EncoderIdle ==
    /\ latest_state = <<>>
    /\ state_json = <<>>

(***************************************************************************)
(* persist_messages: state after q = Queue(), t2.start()                   *)
(***************************************************************************)
Init ==
    /\ input = <<>>
    /\ ppc = "loop"
    /\ schemas = <<>>
    /\ state = None
    /\ queue = <<>>
    /\ cpc = "loop"
    /\ received = <<>>
    /\ records = <<>>
    /\ files_created = <<>>
    /\ file_size \in FileSizes
    /\ mpc = "persist"
    /\ stdout = <<>>
    /\ tinput = <<>>
    /\ tpc = "listen"
    /\ max_batch_size = DefaultMaxBatchSize
    /\ max_pyarrow_table_size = DefaultMaxPyarrowTableSize
    /\ target = [sinks |-> <<>>, batches |-> <<>>, files |-> <<>>]
    /\ target_lo = [sinks |-> <<>>, batches |-> <<>>, files |-> <<>>]
    /\ ConfigUnset
    /\ TableIdle
    /\ FieldIdle
    /\ NameIdle
    /\ EncoderIdle

ConsumerVars == <<cpc, received, records, files_created, file_size>>
MainVars == <<mpc, stdout>>

\* (faulty variant: the item is put at the head of the queue)
put_mutant(q, item) == <<item>> \o q
\* w_queue.put(item)
put(q, item) == Append(q, item)

\* (faulty variant: the exception is swallowed, the producer returns)
RaiseSwallowed ==
    /\ queue' = put(queue, EOF)
    /\ ppc' = "returned"
    /\ mpc' = mpc
\* (faulty variant: no EOF is put before the exception is raised again)
RaiseWithoutEOF ==
    /\ queue' = queue
    /\ ppc' = "raised"
    /\ mpc' = "aborted"
\* the except clause of producer: put EOF and re-raise; the exception
\* leaves persist_messages and main
Raise ==
    /\ queue' = put(queue, EOF)
    /\ ppc' = "raised"
    /\ mpc' = "aborted"

\* flatten(message["record"], schemas.get(stream_name, {})): the record (named
\* by its position in the input) flattened under the stream's current schema
flatten(id, stream) ==
    RecordItem(stream, id,
               IF stream \in DOMAIN schemas THEN schemas[stream] ELSE "{}")

\* (faulty variant: the check for a known stream is skipped)
HasSchemaMutant(stream) == TRUE
\* message["stream"] in schemas
HasSchema(stream) == stream \in DOMAIN schemas

\* (faulty variant: every record passes)
validate_mutant(m) == TRUE
\* validators[message["stream"]].validate(message["record"]) does not raise
validate(m) == m.ok

\* producer, message_type == "RECORD"
ProducerRecord ==
    /\ UNCHANGED <<TargetVars, OtherVars>>
    /\ ppc = "loop"
    /\ Len(input) < MaxMsgs
    /\ \E m \in RecordMsgs :
        /\ input' = Append(input, m)
        /\ IF ~HasSchema(m.stream) \/ ~validate(m)
           THEN /\ Raise
                /\ UNCHANGED <<state, stdout>>
           ELSE /\ queue' = put(queue, flatten(Len(input) + 1, m.stream))
                /\ state' = None
                /\ UNCHANGED <<ppc, mpc, stdout>>
    /\ UNCHANGED <<schemas, ConsumerVars>>

\* (faulty variant: a STATE message does not overwrite a pending state)
StateAfterStateMutant(old, value) == IF old = None THEN value ELSE old
\* state = message["value"]
StateAfterState(old, value) == value

\* producer, message_type == "STATE"
ProducerState ==
    /\ UNCHANGED <<TargetVars, OtherVars>>
    /\ ppc = "loop"
    /\ Len(input) < MaxMsgs
    /\ \E m \in StateMsgs :
        /\ input' = Append(input, m)
        /\ state' = StateAfterState(state, m.value)
    /\ UNCHANGED <<ppc, schemas, queue, ConsumerVars, MainVars>>

\* producer, message_type == "SCHEMA"
ProducerSchema ==
    /\ UNCHANGED <<TargetVars, OtherVars>>
    /\ ppc = "loop"
    /\ Len(input) < MaxMsgs
    /\ \E m \in SchemaMsgs :
        /\ input' = Append(input, m)
        /\ schemas' = Put(schemas, m.stream, m.schema)
        /\ queue' = put(queue, SchemaItem(m.stream, m.schema))
    /\ UNCHANGED <<ppc, state, ConsumerVars, MainVars>>

\* producer, any other message type: a warning is logged
ProducerUnknown ==
    /\ UNCHANGED <<TargetVars, OtherVars>>
    /\ ppc = "loop"
    /\ Len(input) < MaxMsgs
    /\ \E m \in OtherMsgs :
        input' = Append(input, m)
    /\ UNCHANGED <<ppc, schemas, state, queue, ConsumerVars, MainVars>>

\* producer, a line that cannot be parsed: "Unable to parse" is raised
ProducerParseError ==
    /\ UNCHANGED <<TargetVars, OtherVars>>
    /\ ppc = "loop"
    /\ Len(input) < MaxMsgs
    /\ \E m \in BadMsgs :
        input' = Append(input, m)
    /\ Raise
    /\ UNCHANGED <<schemas, state, stdout, ConsumerVars>>

\* producer, a message for which singer.parse_message returns None: the call
\* of .asdict() on it raises AttributeError, which only the outer except
\* clause catches
ProducerForeign ==
    /\ UNCHANGED <<TargetVars, OtherVars>>
    /\ ppc = "loop"
    /\ Len(input) < MaxMsgs
    /\ \E m \in ForeignMsgs :
        input' = Append(input, m)
    /\ Raise
    /\ UNCHANGED <<schemas, state, stdout, ConsumerVars>>

\* producer, end of the message buffer: put EOF and return state
ProducerEOF ==
    /\ UNCHANGED <<TargetVars, OtherVars>>
    /\ ppc = "loop"
    /\ queue' = put(queue, EOF)
    /\ ppc' = "returned"
    /\ UNCHANGED <<input, schemas, state, ConsumerVars, MainVars>>

\* consumer: one receiver.get(); only EOF is acted on
ConsumerGet ==
    /\ UNCHANGED <<TargetVars, OtherVars>>
    /\ cpc = "loop"
    /\ queue # <<>>
    /\ queue' = Tail(queue)
    /\ received' = Append(received, Head(queue))
    /\ cpc' = IF Head(queue).mtype = "EOF" THEN "done" ELSE "loop"
    /\ UNCHANGED <<input, ppc, schemas, state, records, files_created,
                   file_size, MainVars>>

\* persist_messages: t2.join() after producer returned, then return state
Join ==
    /\ UNCHANGED <<TargetVars, OtherVars>>
    /\ mpc = "persist"
    /\ ppc = "returned"
    /\ cpc = "done"
    /\ mpc' = "joined"
    /\ UNCHANGED <<input, ppc, schemas, state, queue, ConsumerVars, stdout>>

\* (faulty variant: the line is written whatever the state)
emit_state_mutant(st, out) == Append(out, st)
\* emit_state: the state is written as one line, if there is one
emit_state(st, out) == IF st # None THEN Append(out, st) ELSE out

\* main: emit_state(state)
EmitState ==
    /\ UNCHANGED <<TargetVars, OtherVars>>
    /\ mpc = "joined"
    /\ stdout' = emit_state(state, stdout)
    /\ mpc' = "emitted"
    /\ UNCHANGED <<input, ppc, schemas, state, queue, ConsumerVars>>

Next ==
    \/ ProducerRecord
    \/ ProducerState
    \/ ProducerSchema
    \/ ProducerUnknown
    \/ ProducerParseError
    \/ ProducerForeign
    \/ ProducerEOF
    \/ ConsumerGet
    \/ Join
    \/ EmitState

Spec == Init /\ [][Next]_vars

(***************************************************************************)
(* persist_messages with a finite input and its processes scheduled: the   *)
(* producer (the main process) goes on reading until the input ends or it  *)
(* raises, the consumer process goes on getting items, and main goes on    *)
(* after persist_messages has returned.                                    *)
(***************************************************************************)
MaxLiveMsgs == 3

LiveInit ==
    /\ Init
    /\ file_size = -1

\* the producer reads one more message of the input
LiveRead ==
    /\ \/ ProducerRecord
       \/ ProducerState
       \/ ProducerSchema
       \/ ProducerUnknown
       \/ ProducerParseError
       \/ ProducerForeign
    /\ Len(input') <= MaxLiveMsgs

LiveProducer ==
    \/ LiveRead
    \/ ProducerEOF

LiveMain ==
    \/ Join
    \/ EmitState

LiveNext ==
    \/ LiveProducer
    \/ ConsumerGet
    \/ LiveMain

LiveSpec ==
    /\ LiveInit
    /\ [][LiveNext]_vars
    /\ WF_vars(LiveProducer)
    /\ WF_vars(ConsumerGet)
    /\ WF_vars(LiveMain)

(***************************************************************************)
(* TargetParquet with ParquetSink.  A table is the sequence of its rows;   *)
(* the empty sequence stands for "no table" (None).  The functions of      *)
(* utils/parquet.py are translated from their code; the sink that calls    *)
(* them (target_parquet.sinks) and the dispatch of the messages follow the *)
(* specification, the config descriptions and the end-to-end tests: the    *)
(* records of a stream are buffered up to max_batch_size, each full buffer *)
(* is added as a batch to the stream's accumulated table, and the table is *)
(* written as one file when it reaches max_pyarrow_table_size, when the    *)
(* schema is replaced, and at the end of the input.                        *)
(***************************************************************************)
MaxSinkMsgs == 4
MaxBatchSize == 2
MaxTableMb == 2

BytesPerMb == 1048576
\* Table.nbytes of one row: half a megabyte or a megabyte
RecordBytes == {524288, 1048576}

TRecordMsgs == [type : {"RECORD"}, stream : Streams, bytes : RecordBytes]
TSchemaMsgs == [type : {"SCHEMA"}, stream : Streams, schema : SchemaVersions]

\* a flattened record: its position in the input, its size and the schema
\* it was flattened under
Row(id, bytes, schema) == [id |-> id, bytes |-> bytes, schema |-> schema]

RECURSIVE nbytes(_)
nbytes(table) ==
    IF table = <<>> THEN 0 ELSE Head(table).bytes + nbytes(Tail(table))

bytes_to_mb(n) == n \div BytesPerMb

\* (faulty variant: the size is always reported as zero)
get_pyarrow_table_size_mutant(table) == 0
\* the size of a table in whole MB (compared with an integer threshold)
get_pyarrow_table_size(table) == bytes_to_mb(nbytes(table))

\* (faulty variant: the last row of list_dict is left out)
create_pyarrow_table_mutant(list_dict, schema) ==
    [k \in 1..(Len(list_dict) - 1) |->
        [id |-> list_dict[k].id, bytes |-> list_dict[k].bytes,
         schema |-> list_dict[k].schema, cast |-> schema]]
\* the rows of list_dict in order, cast to the given schema
create_pyarrow_table(list_dict, schema) ==
    [k \in 1..Len(list_dict) |->
        [id |-> list_dict[k].id, bytes |-> list_dict[k].bytes,
         schema |-> list_dict[k].schema, cast |-> schema]]

\* (faulty variant: the existing table is dropped instead of concatenated)
concat_tables_mutant(recs, pyarrow_table, pyarrow_schema) ==
    IF recs = <<>> THEN pyarrow_table
    ELSE create_pyarrow_table(recs, pyarrow_schema)
\* the records as a new table, concatenated to the existing one if there is one
concat_tables(recs, pyarrow_table, pyarrow_schema) ==
    IF recs = <<>> THEN pyarrow_table
    ELSE LET new_table == create_pyarrow_table(recs, pyarrow_schema)
         IN IF pyarrow_table # <<>> THEN pyarrow_table \o new_table
            ELSE new_table

\* a threshold set to a non-positive value is disabled
Enabled(threshold) == threshold > 0

NewSink(schema) ==
    [schema |-> schema, records |-> <<>>, pyarrow_df |-> <<>>, files_saved |-> 0]

\* what one operation of a sink yields: the sink after it, the batches it
\* materialized and the files it wrote
SinkOut(sk, b, f) == [sink |-> sk, batches |-> b, files |-> f]

\* ParquetSink.write_file: write the accumulated table, if any, as one file
write_file(name, sk) ==
    IF sk.pyarrow_df = <<>> THEN SinkOut(sk, <<>>, <<>>)
    ELSE SinkOut([sk EXCEPT !.pyarrow_df = <<>>, !.files_saved = @ + 1],
                 <<>>,
                 <<[stream |-> name, rows |-> sk.pyarrow_df,
                    seq |-> sk.files_saved]>>)

\* ParquetSink.process_batch: the buffered records become one columnar batch,
\* concatenated to the accumulated table; the table is written when its size
\* reaches max_pyarrow_table_size
process_batch(name, sk, tsize) ==
    IF sk.records = <<>> THEN SinkOut(sk, <<>>, <<>>)
    ELSE LET df == concat_tables(sk.records, sk.pyarrow_df, sk.schema)
             sk1 == [sk EXCEPT !.records = <<>>, !.pyarrow_df = df]
             b == <<[stream |-> name,
                     rows |-> create_pyarrow_table(sk.records, sk.schema)]>>
         IN IF Enabled(tsize) /\ get_pyarrow_table_size(df) >= tsize
            THEN SinkOut(write_file(name, sk1).sink, b,
                         write_file(name, sk1).files)
            ELSE SinkOut(sk1, b, <<>>)

\* ParquetSink.process_record and the batch-full check after it
process_record(name, sk, row, bsize, tsize) ==
    LET sk1 == [sk EXCEPT !.records = Append(@, row)]
    IN IF Enabled(bsize) /\ Len(sk1.records) >= bsize
       THEN process_batch(name, sk1, tsize)
       ELSE SinkOut(sk1, <<>>, <<>>)

\* ParquetSink.clean_up (finalize): drain the buffer, write what is left
clean_up(name, sk, tsize) ==
    LET p == process_batch(name, sk, tsize)
        w == write_file(name, p.sink)
    IN SinkOut(w.sink, p.batches, p.files \o w.files)

\* the result of a sink operation put back into the target
Apply(t, name, o) ==
    [sinks |-> Put(t.sinks, name, o.sink),
     batches |-> t.batches \o o.batches,
     files |-> t.files \o o.files]

\* SCHEMA: a new stream gets a sink; an unchanged schema changes nothing; a
\* changed schema flushes the sink under the old schema, then replaces it
on_schema(t, m, tsize) ==
    IF m.stream \notin DOMAIN t.sinks
    THEN [t EXCEPT !.sinks = Put(@, m.stream, NewSink(m.schema))]
    ELSE IF t.sinks[m.stream].schema = m.schema THEN t
    ELSE LET c == clean_up(m.stream, t.sinks[m.stream], tsize)
         IN Apply(t, m.stream,
                  SinkOut([c.sink EXCEPT !.schema = m.schema],
                          c.batches, c.files))

\* RECORD for a stream that has a sink
on_record(t, m, id, bsize, tsize) ==
    LET sk == t.sinks[m.stream]
    IN Apply(t, m.stream,
             process_record(m.stream, sk, Row(id, m.bytes, sk.schema),
                            bsize, tsize))

StreamOrder == <<"s1", "s2">>

RECURSIVE finalize_from(_, _, _)
finalize_from(t, k, tsize) ==
    IF k > Len(StreamOrder) THEN t
    ELSE LET name == StreamOrder[k]
         IN IF name \in DOMAIN t.sinks
            THEN finalize_from(Apply(t, name, clean_up(name, t.sinks[name], tsize)),
                               k + 1, tsize)
            ELSE finalize_from(t, k + 1, tsize)

\* end of input: every sink is drained and cleaned up
on_finalize(t, tsize) == finalize_from(t, 1, tsize)

EmptyTarget == [sinks |-> <<>>, batches |-> <<>>, files |-> <<>>]

\* the lowered size threshold of the second run: one less, and still enabled
LowerSize == IF max_pyarrow_table_size > 1 THEN max_pyarrow_table_size - 1
             ELSE max_pyarrow_table_size

SinkInit ==
    /\ input = <<>>
    /\ ppc = "loop"
    /\ schemas = <<>>
    /\ state = None
    /\ queue = <<>>
    /\ cpc = "loop"
    /\ received = <<>>
    /\ records = <<>>
    /\ files_created = <<>>
    /\ file_size = -1
    /\ mpc = "persist"
    /\ stdout = <<>>
    /\ tinput = <<>>
    /\ tpc = "listen"
    /\ max_batch_size \in -1..MaxBatchSize
    /\ max_pyarrow_table_size \in -1..MaxTableMb
    /\ target = EmptyTarget
    /\ target_lo = EmptyTarget
    /\ ConfigUnset
    /\ TableIdle
    /\ FieldIdle
    /\ NameIdle
    /\ EncoderIdle

\* the target reads a SCHEMA message, one of msgs
ReadSchema(msgs, maxlen) ==
    /\ tpc = "listen"
    /\ Len(tinput) < maxlen
    /\ \E m \in msgs :
        /\ tinput' = Append(tinput, m)
        /\ target' = on_schema(target, m, max_pyarrow_table_size)
        /\ target_lo' = on_schema(target_lo, m, LowerSize)
    /\ UNCHANGED <<tpc, max_batch_size, max_pyarrow_table_size, PersistVars,
                   OtherVars>>

\* the target reads a RECORD message, one of msgs; a RECORD for a stream
\* with no SCHEMA is fatal
ReadRecord(msgs, maxlen) ==
    /\ tpc = "listen"
    /\ Len(tinput) < maxlen
    /\ \E m \in msgs :
        /\ tinput' = Append(tinput, m)
        /\ IF m.stream \in DOMAIN target.sinks
           THEN /\ target' = on_record(target, m, Len(tinput) + 1,
                                       max_batch_size, max_pyarrow_table_size)
                /\ target_lo' = on_record(target_lo, m, Len(tinput) + 1,
                                          max_batch_size, LowerSize)
                /\ tpc' = tpc
           ELSE /\ tpc' = "failed"
                /\ UNCHANGED <<target, target_lo>>
    /\ UNCHANGED <<max_batch_size, max_pyarrow_table_size, PersistVars,
                   OtherVars>>

TargetSchema == ReadSchema(TSchemaMsgs, MaxSinkMsgs)

TargetRecord == ReadRecord(TRecordMsgs, MaxSinkMsgs)

TargetFinalize ==
    /\ tpc = "listen"
    /\ tpc' = "finalized"
    /\ target' = on_finalize(target, max_pyarrow_table_size)
    /\ target_lo' = on_finalize(target_lo, LowerSize)
    /\ UNCHANGED <<tinput, max_batch_size, max_pyarrow_table_size, PersistVars,
                   OtherVars>>

SinkNext ==
    \/ TargetSchema
    \/ TargetRecord
    \/ TargetFinalize

SinkSpec == SinkInit /\ [][SinkNext]_vars

(***************************************************************************)
(* The same target fed with the messages of a single stream whose schema   *)
(* does not change: longer runs of one sink                                *)
(***************************************************************************)
MaxOneStreamMsgs == 7

OneStreamSchema == ReadSchema({m \in TSchemaMsgs : m.stream = "s1" /\ m.schema = "A"},
                              MaxOneStreamMsgs)

OneStreamRecord == ReadRecord({m \in TRecordMsgs : m.stream = "s1"},
                              MaxOneStreamMsgs)

OneStreamNext ==
    \/ OneStreamSchema
    \/ OneStreamRecord
    \/ TargetFinalize

OneStreamSpec == SinkInit /\ [][OneStreamNext]_vars

(***************************************************************************)
(* The same target fed with the interleaved messages of two streams, each  *)
(* with a schema of its own that is sent again, unchanged, before each of  *)
(* its records                                                             *)
(***************************************************************************)
MaxMixedMsgs == 6

\* the schema of each stream
StreamSchema == [s \in Streams |-> IF s = "s1" THEN "A" ELSE "B"]

MixedSchema == ReadSchema({m \in TSchemaMsgs : m.schema = StreamSchema[m.stream]},
                          MaxMixedMsgs)

\* a RECORD directly follows the SCHEMA of its stream
MixedRecord ==
    ReadRecord({m \in TRecordMsgs :
                    /\ tinput # <<>>
                    /\ tinput[Len(tinput)].type = "SCHEMA"
                    /\ tinput[Len(tinput)].stream = m.stream},
               MaxMixedMsgs)

MixedNext ==
    \/ MixedSchema
    \/ MixedRecord
    \/ TargetFinalize

MixedSpec == SinkInit /\ [][MixedNext]_vars

(***************************************************************************)
(* The same target with extra fields and partition columns configured.     *)
(* The three assertions ("extra_fields and extra_fields_types must be both *)
(* set or both unset", "... must have the same keys", "partition_cols must *)
(* be in the schema") are made where a sink is built for a stream: when    *)
(* the first SCHEMA of the stream is read and when a SCHEMA replaces its   *)
(* schema.  TargetParquet itself validates nothing of them.                *)
(***************************************************************************)
MaxConfigMsgs == 3

\* "field1=value1" and "field1=value1,field2=1"
ExtraFieldsChoices ==
    {<<>>, "field1" :> "value1", ("field1" :> "value1") @@ ("field2" :> "1")}

\* "field1=string", "field2=integer" and "field1=string,field2=integer"
ExtraFieldsTypesChoices ==
    {<<>>, "field1" :> "string", "field2" :> "integer",
     ("field1" :> "string") @@ ("field2" :> "integer")}

PartitionColsChoices == {{}, {"col_b"}, {"field1"}}

\* the property names of the two schemas
SchemaColumns ==
    [v \in SchemaVersions |-> IF v = "A" THEN {"col_a"} ELSE {"col_a", "col_b"}]

\* (faulty variant: only "both set or both unset" is asserted)
validate_extra_fields_mutant ==
    (extra_fields = <<>>) = (extra_fields_types = <<>>)
\* both set or both unset, and with the same keys
validate_extra_fields ==
    /\ (extra_fields = <<>>) = (extra_fields_types = <<>>)
    /\ DOMAIN extra_fields = DOMAIN extra_fields_types

\* (faulty variant: the partition columns are not looked up)
validate_partition_cols_mutant(schema) == TRUE
\* every partition column is a column of the schema or an extra field
validate_partition_cols(schema) ==
    partition_cols \subseteq (SchemaColumns[schema] \cup DOMAIN extra_fields)

\* the SCHEMA message m makes the target build a sink
BuildsSink(m) ==
    IF m.stream \in DOMAIN target.sinks
    THEN target.sinks[m.stream].schema # m.schema
    ELSE TRUE

\* the sink built for m passes the assertions
SinkAccepts(m) == validate_extra_fields /\ validate_partition_cols(m.schema)

ConfigInit ==
    /\ input = <<>>
    /\ ppc = "loop"
    /\ schemas = <<>>
    /\ state = None
    /\ queue = <<>>
    /\ cpc = "loop"
    /\ received = <<>>
    /\ records = <<>>
    /\ files_created = <<>>
    /\ file_size = -1
    /\ mpc = "persist"
    /\ stdout = <<>>
    /\ tinput = <<>>
    /\ tpc = "listen"
    /\ max_batch_size \in 1..MaxBatchSize
    /\ max_pyarrow_table_size = 1
    /\ target = EmptyTarget
    /\ target_lo = EmptyTarget
    /\ extra_fields \in ExtraFieldsChoices
    /\ extra_fields_types \in ExtraFieldsTypesChoices
    /\ partition_cols \in PartitionColsChoices
    /\ TableIdle
    /\ FieldIdle
    /\ NameIdle
    /\ EncoderIdle

\* a SCHEMA message for which no sink is built, or one whose sink is accepted
ConfigSchema ==
    ReadSchema({m \in TSchemaMsgs : BuildsSink(m) => SinkAccepts(m)},
               MaxConfigMsgs)

\* a SCHEMA message whose sink fails an assertion: the run is aborted
ConfigSchemaRejected ==
    /\ tpc = "listen"
    /\ Len(tinput) < MaxConfigMsgs
    /\ \E m \in TSchemaMsgs :
        /\ BuildsSink(m)
        /\ ~SinkAccepts(m)
        /\ tinput' = Append(tinput, m)
    /\ tpc' = "failed"
    /\ UNCHANGED <<target, target_lo, max_batch_size, max_pyarrow_table_size,
                   PersistVars, OtherVars>>

ConfigRecord == ReadRecord({m \in TRecordMsgs : m.bytes = BytesPerMb},
                           MaxConfigMsgs)

ConfigNext ==
    \/ ConfigSchema
    \/ ConfigSchemaRejected
    \/ ConfigRecord
    \/ TargetFinalize

ConfigSpec == ConfigInit /\ [][ConfigNext]_vars

(***************************************************************************)
(* utils/parquet.py: from a flattened schema to a pyarrow schema.  A       *)
(* "type" entry is absent, a string or a list of strings.                  *)
(***************************************************************************)
MaxTypes == 2

FIELD_TYPE_TO_PYARROW ==
    [t \in {"BOOLEAN", "STRING", "ARRAY", "INTEGER", "NUMBER", "DATETIME", "OBJECT"} |->
        CASE t = "BOOLEAN" -> "bool"
          [] t = "STRING" -> "string"
          [] t = "ARRAY" -> "string"
          [] t = "INTEGER" -> "int64"
          [] t = "NUMBER" -> "double"
          [] t = "DATETIME" -> "timestamp[us]"
          [] t = "OBJECT" -> "string"]

FORMAT_MAPPING ==
    [f \in {"singer.decimal", "date-time"} |->
        IF f = "singer.decimal" THEN "NUMBER" ELSE "DATETIME"]

\* the type names of a schema, as written; "binary" is a name that
\* FIELD_TYPE_TO_PYARROW does not know
TypeNames ==
    {"null", "NULL", "string", "String", "integer", "number", "boolean",
     "array", "object", "binary"}

\* (faulty variant: the names are left as written)
upper_mutant == [t \in TypeNames |-> t]
\* str.upper() on the type names
upper ==
    [t \in TypeNames |->
        CASE t = "null" -> "NULL"
          [] t = "NULL" -> "NULL"
          [] t = "string" -> "STRING"
          [] t = "String" -> "STRING"
          [] t = "integer" -> "INTEGER"
          [] t = "number" -> "NUMBER"
          [] t = "boolean" -> "BOOLEAN"
          [] t = "array" -> "ARRAY"
          [] t = "object" -> "OBJECT"
          [] t = "binary" -> "BINARY"]

Formats == {None, "date-time", "singer.decimal", "uuid"}

\* the value of a "type" key
TypeAbsent == [kind |-> "absent", str |-> "", items |-> <<>>]
TypeStr(t) == [kind |-> "str", str |-> t, items |-> <<>>]
TypeList(l) == [kind |-> "list", str |-> "", items |-> l]

\* the sequences over S of length at most n
RECURSIVE SeqsUpTo(_, _)
SeqsUpTo(S, n) ==
    IF n = 0 THEN {<<>>}
    ELSE SeqsUpTo(S, n - 1)
         \cup {Append(q, x) : q \in {z \in SeqsUpTo(S, n - 1) : Len(z) = n - 1}, x \in S}

TypeDecls ==
    {TypeAbsent} \cup {TypeStr(t) : t \in {"string", "integer"}}
    \cup {TypeList(l) : l \in SeqsUpTo(TypeNames, MaxTypes)}

AnyOfs ==
    {<<>>,
     <<[type |-> TypeStr("string")]>>,
     <<[type |-> TypeList(<<"null", "string">>)]>>,
     <<[type |-> TypeStr("integer")], [type |-> TypeAbsent], [type |-> TypeStr("null")]>>,
     <<[type |-> TypeStr("null")], [type |-> TypeList(<<"null", "integer">>)]>>}

\* a property of a flattened schema
InputTypes == [type : TypeDecls, anyOf : AnyOfs, format : Formats]

Range(seq) == {seq[i] : i \in DOMAIN seq}

\* list.remove(x): the first occurrence of x is removed
RECURSIVE remove(_, _)
remove(l, x) ==
    IF l = <<>> THEN <<>>
    ELSE IF Head(l) = x THEN Tail(l)
    ELSE <<Head(l)>> \o remove(Tail(l), x)

\* (faulty variant: the format is applied whatever the type)
_cast_input_type_by_format_mutant(format, input_type) ==
    IF format \in DOMAIN FORMAT_MAPPING THEN FORMAT_MAPPING[format] ELSE input_type
_cast_input_type_by_format(format, input_type) ==
    IF input_type # "STRING" THEN input_type
    ELSE IF format \in DOMAIN FORMAT_MAPPING THEN FORMAT_MAPPING[format]
    ELSE input_type

\* the types collected from "anyOf" when "type" is absent or empty
RECURSIVE any_of_types(_)
any_of_types(anyOf) ==
    IF anyOf = <<>> THEN <<>>
    ELSE LET t == Head(anyOf).type
         IN (CASE t.kind = "list" -> t.items
               [] t.kind = "str" -> <<t.str>>
               [] OTHER -> <<>>)
            \o any_of_types(Tail(anyOf))

_field_type_to_pyarrow_field(field_name, input_types, required_fields, cast_by_format) ==
    LET t == input_types.type
        falsy == t.kind = "absent" \/ (t.kind = "list" /\ t.items = <<>>)
        types == IF falsy THEN any_of_types(input_types.anyOf)
                 ELSE IF t.kind = "str" THEN <<t.str>>
                 ELSE t.items
        types_uppercase == [i \in DOMAIN types |-> upper[types[i]]]
        nullable == "NULL" \in Range(types_uppercase)
                    \/ field_name \notin required_fields
        rest == IF "NULL" \in Range(types_uppercase)
                THEN remove(types_uppercase, "NULL")
                ELSE types_uppercase
        first == IF rest # <<>> THEN rest[1] ELSE ""
        input_type == IF cast_by_format /\ input_types.format # None
                      THEN _cast_input_type_by_format(input_types.format, first)
                      ELSE first
        pyarrow_type == IF input_type \in DOMAIN FIELD_TYPE_TO_PYARROW
                        THEN FIELD_TYPE_TO_PYARROW[input_type]
                        ELSE "string"
    IN [name |-> field_name, type |-> pyarrow_type, nullable |-> nullable]

\* a flattened schema is the sequence of its properties (name, input_types)
\* and the set of its required names; the pyarrow schema is the sequence of
\* the fields, in the order of the properties
flatten_schema_to_pyarrow_schema(flatten_schema_dictionary, cast_by_format) ==
    LET flatten_schema == flatten_schema_dictionary.properties
        required_fields == flatten_schema_dictionary.required
    IN [i \in DOMAIN flatten_schema |->
            _field_type_to_pyarrow_field(flatten_schema[i].name,
                                         flatten_schema[i].input_types,
                                         required_fields, cast_by_format)]

FieldInit ==
    /\ input = <<>>
    /\ ppc = "loop"
    /\ schemas = <<>>
    /\ state = None
    /\ queue = <<>>
    /\ cpc = "loop"
    /\ received = <<>>
    /\ records = <<>>
    /\ files_created = <<>>
    /\ file_size = -1
    /\ mpc = "persist"
    /\ stdout = <<>>
    /\ tinput = <<>>
    /\ tpc = "listen"
    /\ max_batch_size = DefaultMaxBatchSize
    /\ max_pyarrow_table_size = DefaultMaxPyarrowTableSize
    /\ target = EmptyTarget
    /\ target_lo = EmptyTarget
    /\ ConfigUnset
    /\ TableIdle
    /\ NameIdle
    /\ EncoderIdle
    /\ field_in \in {<<[field_name |-> "col_a", input_types |-> it,
                        required_fields |-> rq, cast_by_format |-> cf]>> :
                        it \in InputTypes, rq \in {{}, {"col_a"}}, cf \in BOOLEAN}
    /\ pyarrow_field = <<>>

\* one call of _field_type_to_pyarrow_field
FieldToPyarrow ==
    /\ field_in # <<>>
    /\ pyarrow_field = <<>>
    /\ pyarrow_field' = <<_field_type_to_pyarrow_field(
                              field_in[1].field_name, field_in[1].input_types,
                              field_in[1].required_fields, field_in[1].cast_by_format)>>
    /\ UNCHANGED <<field_in, PersistVars, TargetVars, ConfigVars, TableVars,
                   NameVars, EncoderVars>>

FieldNext ==
    \/ FieldToPyarrow

FieldSpec == FieldInit /\ [][FieldNext]_vars

(***************************************************************************)
(* The data of one sink: a record is flattened, the extra fields are added *)
(* to it, and the buffered records become a table with the columns of the  *)
(* pyarrow schema (create_pyarrow_table, seen column by column).  A column *)
(* name is the path of its property names, which the flattening joins with *)
(* "__".  The schema is that of test_e2e_create_file_with_null_fields.     *)
(***************************************************************************)
MaxRows == 2

\* the values of a record: a key that is not there, null, a string, an object
Absent == [k |-> "absent", s |-> "", o |-> <<>>]
Null == [k |-> "null", s |-> "", o |-> <<>>]
Str(v) == [k |-> "str", s |-> v, o |-> <<>>]
Obj(f) == [k |-> "obj", s |-> "", o |-> f]

\* the keys of a dict
Keys(d) == {x \in DOMAIN d : d[x].k # "absent"}

Inner(f3, f4) == Obj(("field3" :> f3) @@ ("field4" :> f4))

Field1Choices ==
    {Absent, Null,
     Obj("field2" :> Null),
     Obj("field2" :> Inner(Str("test_field3"), Str("test_field4"))),
     Obj("field2" :> Inner(Null, Absent))}

Field2Choices == {Null, Obj("field3" :> Str("top_field3"))}

\* "field7" is not declared by the schema
Field7Choices == {Absent, Str("undeclared")}

Records ==
    {("field1" :> f1) @@ ("field2" :> f2) @@ ("field7" :> f7) :
        f1 \in Field1Choices, f2 \in Field2Choices, f7 \in Field7Choices}

NullableString ==
    [type |-> TypeList(<<"null", "string">>), anyOf |-> <<>>, format |-> None]

\* the properties of the flattened schema, in order
OwnColumns ==
    << <<"field1", "field2", "field3">>, <<"field1", "field2", "field4">>,
       <<"field2", "field3">>, <<"field2", "field4">>, <<"field2", "field5">>,
       <<"field6">> >>

\* the extra fields in the order of the config string
ExtraOrder == <<"field1", "field2">>

extra_names == SelectSeq(ExtraOrder, LAMBDA n : n \in DOMAIN extra_fields)

\* the flattened schema of the stream, then updated with the extra fields
flatten_schema_own ==
    [properties |-> [i \in DOMAIN OwnColumns |->
                        [name |-> OwnColumns[i], input_types |-> NullableString]],
     required |-> {}]

flatten_schema_with_extra ==
    [properties |->
        flatten_schema_own.properties
        \o [i \in DOMAIN extra_names |->
                [name |-> <<extra_names[i]>>,
                 input_types |-> [type |-> TypeList(<<extra_fields_types[extra_names[i]]>>),
                                  anyOf |-> <<>>, format |-> None]]],
     required |-> {}]

\* the items of a record, nested objects flattened: (path, value) pairs
RECURSIVE flat_items(_, _)
flat_items(node, parent_key) ==
    UNION {LET v == node[key]
               new_key == Append(parent_key, key)
           IN IF v.k = "obj" THEN flat_items(v.o, new_key)
              ELSE {<<new_key, v>>} : key \in Keys(node)}

flatten_record(record) ==
    LET items == flat_items(record, <<>>)
    IN [path \in {it[1] : it \in items} |->
            (CHOOSE it \in items : it[1] = path)[2]]

\* record_flatten | extra_values
with_extra_values(record_flatten) ==
    LET extra == {<<n>> : n \in DOMAIN extra_fields}
    IN [path \in (DOMAIN record_flatten) \cup extra |->
            IF path \in extra THEN Str(extra_fields[path[1]])
            ELSE record_flatten[path]]

\* row.get(f)
get(row, f) == IF f \in DOMAIN row THEN row[f] ELSE Null

names(schema) == [i \in DOMAIN schema |-> schema[i].name]

\* (faulty variant: the columns are the keys of the rows)
data_mutant(list_dict, schema_names) ==
    [f \in UNION {DOMAIN list_dict[k] : k \in DOMAIN list_dict} |->
        [k \in DOMAIN list_dict |-> get(list_dict[k], f)]]
\* {f: [row.get(f) for row in list_dict] for f in schema.names}
data(list_dict, schema_names) ==
    [f \in Range(schema_names) |->
        [k \in DOMAIN list_dict |-> get(list_dict[k], f)]]

\* the texts that can be cast to a type
Castable(type, text) ==
    CASE type = "string" -> TRUE
      [] type = "int64" -> text \in {"1"}
      [] type = "double" -> text \in {"1"}
      [] OTHER -> FALSE

\* a cell of a table: its type, and its text unless it is null
Cell(type, v) ==
    IF v.k = "null" THEN [type |-> type, null |-> TRUE, s |-> ""]
    ELSE [type |-> type, null |-> FALSE, s |-> v.s]

field_type(schema, f) ==
    schema[CHOOSE i \in DOMAIN schema : schema[i].name = f].type

\* the number of rows of the columns
num_rows(columns) ==
    IF DOMAIN columns = {} THEN 0
    ELSE Len(columns[CHOOSE f \in DOMAIN columns : TRUE])

\* (faulty variant: the columns keep the type pa.table gave them)
table_cast_mutant(columns, schema) ==
    [ok |-> TRUE, schema |-> schema,
     rows |-> [k \in 1..num_rows(columns) |->
                 [f \in DOMAIN columns |-> Cell("string", columns[f][k])]]]
\* pa.table(columns).cast(schema): the names must be those of the schema and
\* every column gets the type of its field; a value that cannot be cast fails
\* the call
table_cast(columns, schema) ==
    IF \/ DOMAIN columns # Range(names(schema))
       \/ \E f \in DOMAIN columns : \E k \in DOMAIN columns[f] :
             /\ columns[f][k].k # "null"
             /\ ~Castable(field_type(schema, f), columns[f][k].s)
    THEN [ok |-> FALSE, schema |-> schema, rows |-> <<>>]
    ELSE [ok |-> TRUE, schema |-> schema,
          rows |-> [k \in 1..num_rows(columns) |->
                      [f \in DOMAIN columns |->
                          Cell(field_type(schema, f), columns[f][k])]]]

\* create_pyarrow_table, column by column
create_table(rows, schema) == table_cast(data(rows, names(schema)), schema)

TableInit ==
    /\ input = <<>>
    /\ ppc = "loop"
    /\ schemas = <<>>
    /\ state = None
    /\ queue = <<>>
    /\ cpc = "loop"
    /\ received = <<>>
    /\ records = <<>>
    /\ files_created = <<>>
    /\ file_size = -1
    /\ mpc = "persist"
    /\ stdout = <<>>
    /\ tinput = <<>>
    /\ tpc = "listen"
    /\ max_batch_size = DefaultMaxBatchSize
    /\ max_pyarrow_table_size = DefaultMaxPyarrowTableSize
    /\ target = EmptyTarget
    /\ target_lo = EmptyTarget
    /\ extra_fields \in ExtraFieldsChoices
    /\ extra_fields_types \in ExtraFieldsTypesChoices
    /\ validate_extra_fields
    /\ partition_cols = {}
    /\ TableIdle
    /\ FieldIdle
    /\ NameIdle
    /\ EncoderIdle

\* the sink processes a record: it is flattened and gets the extra values
SinkProcessRecord ==
    /\ tables = <<>>
    /\ Len(raw_records) < MaxRows
    /\ \E record \in Records :
        /\ raw_records' = Append(raw_records, record)
        /\ context_records' =
              Append(context_records, with_extra_values(flatten_record(record)))
    /\ UNCHANGED <<tables, PersistVars, TargetVars, ConfigVars, FieldVars,
                   NameVars, EncoderVars>>

\* the sink processes the batch: the buffered records become a table
SinkProcessBatch ==
    /\ tables = <<>>
    /\ context_records # <<>>
    /\ tables' = <<create_table(context_records,
                                flatten_schema_to_pyarrow_schema(
                                    flatten_schema_with_extra, FALSE))>>
    /\ UNCHANGED <<raw_records, context_records, PersistVars, TargetVars,
                   ConfigVars, FieldVars, NameVars, EncoderVars>>

TableNext ==
    \/ SinkProcessRecord
    \/ SinkProcessBatch

TableSpec == TableInit /\ [][TableNext]_vars

(***************************************************************************)
(* File names.  A path is the sequence of the strings it is made of.       *)
(* persist_messages.write_file builds the name from the stream and the     *)
(* clock; write_parquet_file appends the extension of the codec to the     *)
(* basename template it is given.                                          *)
(***************************************************************************)
MaxWrites == 2
MaxFilesSaved == 1

\* the codec names as configured; "bz2" is no supported codec
CodecSpellings ==
    {"snappy", "SNAPPY", "gzip", "GZIP", "Gzip", "brotli", "zstd", "ZSTD",
     "lz4", "LZ4", "bz2"}

\* str.lower() and str.upper() on the configured names
codec_lower ==
    [c \in CodecSpellings |->
        CASE c \in {"snappy", "SNAPPY"} -> "snappy"
          [] c \in {"gzip", "GZIP", "Gzip"} -> "gzip"
          [] c = "brotli" -> "brotli"
          [] c \in {"zstd", "ZSTD"} -> "zstd"
          [] c \in {"lz4", "LZ4"} -> "lz4"
          [] c = "bz2" -> "bz2"]

codec_upper ==
    [c \in CodecSpellings |->
        CASE c \in {"snappy", "SNAPPY"} -> "SNAPPY"
          [] c \in {"gzip", "GZIP", "Gzip"} -> "GZIP"
          [] c = "brotli" -> "BROTLI"
          [] c \in {"zstd", "ZSTD"} -> "ZSTD"
          [] c \in {"lz4", "LZ4"} -> "LZ4"
          [] c = "bz2" -> "BZ2"]

\* utils/parquet.py
EXTENSION_MAPPING ==
    [c \in {"snappy", "gzip", "brotli", "zstd", "lz4"} |->
        CASE c = "snappy" -> ".snappy"
          [] c = "gzip" -> ".gz"
          [] c = "brotli" -> ".br"
          [] c = "zstd" -> ".zstd"
          [] c = "lz4" -> ".lz4"]

\* persist_messages
extension_mapping ==
    [c \in {"SNAPPY", "GZIP", "BROTLI", "ZSTD", "LZ4"} |->
        CASE c = "SNAPPY" -> ".snappy"
          [] c = "GZIP" -> ".gz"
          [] c = "BROTLI" -> ".br"
          [] c = "ZSTD" -> ".zstd"
          [] c = "LZ4" -> ".lz4"]

\* default of the config property compression_method
DefaultCompressionMethod == "gzip"

\* datetime.utcnow().strftime("%Y%m%d_%H%M%S-%f") at the readings of the clock
Clock == <<"20231114_221320-000000", "20231114_221320-000001">>

\* persist_messages: the extension of the codec, "" if none or unsupported
compression_extension ==
    IF compression_method # None
    THEN IF codec_upper[compression_method] \in DOMAIN extension_mapping
         THEN extension_mapping[codec_upper[compression_method]]
         ELSE ""
    ELSE ""

filename_separator == IF streams_in_separate_folder THEN "/" ELSE "-"

\* persist_messages.write_file: the path of the file it writes
write_file_path(current_stream_name) ==
    [ok |-> TRUE,
     path |-> <<current_stream_name, filename_separator, Clock[now],
                compression_extension, ".parquet">>]

\* (faulty variant: the codec is looked up as configured)
write_parquet_file_mutant(method, basename_template) ==
    IF basename_template # <<>>
    THEN IF method \in DOMAIN EXTENSION_MAPPING
         THEN [ok |-> TRUE,
               path |-> basename_template
                        \o <<EXTENSION_MAPPING[method], ".parquet">>]
         ELSE [ok |-> FALSE, path |-> <<"KeyError">>]
    ELSE [ok |-> TRUE, path |-> <<>>]
\* write_parquet_file: the basename of the file it writes, when a template is
\* given; a codec that is not in EXTENSION_MAPPING raises KeyError
write_parquet_file(method, basename_template) ==
    IF basename_template # <<>>
    THEN IF codec_lower[method] \in DOMAIN EXTENSION_MAPPING
         THEN [ok |-> TRUE,
               path |-> basename_template
                        \o <<EXTENSION_MAPPING[codec_lower[method]], ".parquet">>]
         ELSE [ok |-> FALSE, path |-> <<"KeyError">>]
    ELSE [ok |-> TRUE, path |-> <<>>]

\* the basename template of a sink: stream, time, files saved and the number
\* of the file within the write
sink_basename_template(stream_name, files_saved) ==
    <<stream_name, "-", "20231114_221320", "-", ToString(files_saved), "-", "0">>

\* the codec the sink passes: the configured one or the default
config_compression_method ==
    IF compression_method = None THEN DefaultCompressionMethod
    ELSE compression_method

NameInit ==
    /\ input = <<>>
    /\ ppc = "loop"
    /\ schemas = <<>>
    /\ state = None
    /\ queue = <<>>
    /\ cpc = "loop"
    /\ received = <<>>
    /\ records = <<>>
    /\ files_created = <<>>
    /\ file_size = -1
    /\ mpc = "persist"
    /\ stdout = <<>>
    /\ tinput = <<>>
    /\ tpc = "listen"
    /\ max_batch_size = DefaultMaxBatchSize
    /\ max_pyarrow_table_size = DefaultMaxPyarrowTableSize
    /\ target = EmptyTarget
    /\ target_lo = EmptyTarget
    /\ ConfigUnset
    /\ TableIdle
    /\ FieldIdle
    /\ compression_method \in {None} \cup CodecSpellings
    /\ now = 1
    /\ written = <<>>
    /\ EncoderIdle

WriteFileInit ==
    /\ NameInit
    /\ streams_in_separate_folder \in BOOLEAN

\* write_file is called for a stream
LegacyWriteFile ==
    /\ Len(written) < MaxWrites
    /\ \E stream \in Streams :
        written' = Append(written, write_file_path(stream))
    /\ UNCHANGED <<compression_method, streams_in_separate_folder, now,
                   PersistVars, TargetVars, ConfigVars, TableVars, FieldVars,
                   EncoderVars>>

\* the clock advances
Tick ==
    /\ now < Len(Clock)
    /\ now' = now + 1
    /\ UNCHANGED <<compression_method, streams_in_separate_folder, written,
                   PersistVars, TargetVars, ConfigVars, TableVars, FieldVars,
                   EncoderVars>>

WriteFileNext ==
    \/ LegacyWriteFile
    \/ Tick

WriteFileSpec == WriteFileInit /\ [][WriteFileNext]_vars

DatasetWriteInit ==
    /\ NameInit
    /\ streams_in_separate_folder = FALSE

\* a sink writes its table with write_parquet_file
SinkWriteFile ==
    /\ Len(written) < MaxWrites
    /\ \E stream \in Streams, files_saved \in 0..MaxFilesSaved :
        written' = Append(written,
                          write_parquet_file(config_compression_method,
                                             sink_basename_template(stream, files_saved)))
    /\ UNCHANGED <<compression_method, streams_in_separate_folder, now,
                   PersistVars, TargetVars, ConfigVars, TableVars, FieldVars,
                   EncoderVars>>

DatasetWriteNext ==
    \/ SinkWriteFile

DatasetWriteSpec == DatasetWriteInit /\ [][DatasetWriteNext]_vars

(***************************************************************************)
(* TargetParquet._write_state_message: the state is written as one line,   *)
(* json.dumps(state, cls=DecimalEncoder).  A value is an int, a float, a   *)
(* Decimal, a string, a list or a dict; a line is the sequence of the      *)
(* tokens json.dumps writes.                                               *)
(***************************************************************************)
MaxDepth == 2

JInt(text) == [k |-> "int", s |-> text, o |-> <<>>]
JFloat(text) == [k |-> "float", s |-> text, o |-> <<>>]
JDecimal(text) == [k |-> "decimal", s |-> text, o |-> <<>>]
JStr(text) == [k |-> "str", s |-> text, o |-> <<>>]
JList(items) == [k |-> "list", s |-> "", o |-> items]
\* a dict is the sequence of its items (key, value), in insertion order
JDict(items) == [k |-> "dict", s |-> "", o |-> items]
JItem(key, value) == [key |-> key, value |-> value]

\* the Decimal values of the states, as written
DecimalTexts == {"10.5", "2.50", "3"}

\* float(obj) of a Decimal, as json.dumps writes the float
float ==
    [d \in DecimalTexts |->
        CASE d = "10.5" -> "10.5"
          [] d = "2.50" -> "2.5"
          [] d = "3" -> "3.0"]

Scalars ==
    {JInt("42"), JFloat("1.1"), JStr("string_value")}
    \cup {JDecimal(d) : d \in DecimalTexts}

\* the values nested at most depth levels deep
RECURSIVE ValuesUpTo(_)
ValuesUpTo(depth) ==
    IF depth = 0 THEN Scalars
    ELSE Scalars
         \cup {JDict(<<JItem("value4", v)>>) : v \in ValuesUpTo(depth - 1)}
         \cup {JList(<<v, w>>) : v \in ValuesUpTo(depth - 1),
                                 w \in {JInt("3"), JDecimal("2.50")}}

\* the states: a dict of a scalar and a nested value
States ==
    {JDict(<<JItem("value1", v), JItem("nested", w)>>) :
        v \in {JInt("42"), JDecimal("10.5")}, w \in ValuesUpTo(MaxDepth)}

\* the result of a call of default: a value, or TypeError raised
Returned(value) == [ok |-> TRUE, value |-> value]
TypeError == [ok |-> FALSE, value |-> JStr("TypeError")]

\* json.JSONEncoder.default
JSONEncoder_default(obj) == TypeError

\* (faulty variant: a Decimal is turned into its string)
DecimalEncoder_default_mutant(obj) ==
    IF obj.k = "decimal" THEN Returned(JStr(obj.s))
    ELSE JSONEncoder_default(obj)
\* DecimalEncoder.default
DecimalEncoder_default(obj) ==
    IF obj.k = "decimal" THEN Returned(JFloat(float[obj.s]))
    ELSE JSONEncoder_default(obj)

default(cls, obj) ==
    IF cls = "DecimalEncoder" THEN DecimalEncoder_default(obj)
    ELSE JSONEncoder_default(obj)

\* the tokens of a value; default is called for what json cannot encode, at
\* whatever depth it is met, and its result is encoded in its place
RECURSIVE encode(_, _)
RECURSIVE encode_items(_, _, _)
encode(cls, v) ==
    CASE v.k \in {"int", "float"} -> <<v.s>>
      [] v.k = "str" -> <<"\"", v.s, "\"">>
      [] v.k = "list" -> <<"[">> \o encode_items(cls, v.o, FALSE) \o <<"]">>
      [] v.k = "dict" -> <<"{">> \o encode_items(cls, v.o, TRUE) \o <<"}">>
      [] OTHER -> LET r == default(cls, v)
                  IN IF r.ok THEN encode(cls, r.value) ELSE <<"TypeError">>
encode_items(cls, items, keyed) ==
    IF items = <<>> THEN <<>>
    ELSE (IF keyed
          THEN <<"\"", Head(items).key, "\"", ": ">> \o encode(cls, Head(items).value)
          ELSE encode(cls, Head(items)))
         \o (IF Tail(items) = <<>> THEN <<>> ELSE <<", ">>)
         \o encode_items(cls, Tail(items), keyed)

\* json.dumps(obj, cls=cls): the line, unless TypeError was raised
dumps(obj, cls) ==
    LET text == encode(cls, obj)
    IN IF \E i \in DOMAIN text : text[i] = "TypeError"
       THEN [ok |-> FALSE, text |-> <<>>]
       ELSE [ok |-> TRUE, text |-> text]

EncoderInit ==
    /\ input = <<>>
    /\ ppc = "loop"
    /\ schemas = <<>>
    /\ state = None
    /\ queue = <<>>
    /\ cpc = "loop"
    /\ received = <<>>
    /\ records = <<>>
    /\ files_created = <<>>
    /\ file_size = -1
    /\ mpc = "persist"
    /\ stdout = <<>>
    /\ tinput = <<>>
    /\ tpc = "listen"
    /\ max_batch_size = DefaultMaxBatchSize
    /\ max_pyarrow_table_size = DefaultMaxPyarrowTableSize
    /\ target = EmptyTarget
    /\ target_lo = EmptyTarget
    /\ ConfigUnset
    /\ TableIdle
    /\ FieldIdle
    /\ NameIdle
    /\ latest_state \in {<<s>> : s \in States}
    /\ state_json = <<>>

\* _write_state_message(state)
WriteStateMessage ==
    /\ latest_state # <<>>
    /\ state_json = <<>>
    /\ state_json' = <<dumps(latest_state[1], "DecimalEncoder")>>
    /\ UNCHANGED <<latest_state, PersistVars, TargetVars, ConfigVars, TableVars,
                   FieldVars, NameVars>>

EncoderNext ==
    \/ WriteStateMessage

EncoderSpec == EncoderInit /\ [][EncoderNext]_vars

(***************************************************************************)
(* create_pyarrow_table with the order of the columns and of the keys: a   *)
(* dict (a record, the data of a table) is the sequence of its items in    *)
(* insertion order, a table the sequence of its columns.  The flattened    *)
(* schema declares "col_a", a string of format "singer.decimal", and       *)
(* "col_b", a string, in one order or the other; the sink makes a table of *)
(* the records it has buffered and writes the tables it has made.          *)
(***************************************************************************)
Item(key, value) == [key |-> key, value |-> value]

DecimalString ==
    [type |-> TypeList(<<"null", "string">>), anyOf |-> <<>>,
     format |-> "singer.decimal"]

\* the declaration orders of the properties
BatchOrders == {<<"col_a">>, <<"col_a", "col_b">>, <<"col_b", "col_a">>}

BatchInputTypes(field_name) ==
    IF field_name = "col_a" THEN DecimalString ELSE NullableString

\* the flattened records: "col_a" is missing, null, a number or no number, and
\* the keys are in one order or the other
BatchRecords ==
    LET ColA == {<<>>} \cup {<<Item("col_a", v)>> : v \in {Null, Str("1"), Str("abc")}}
        ColB == {<<>>, <<Item("col_b", Str("x"))>>}
    IN {a \o b : a \in ColA, b \in ColB} \cup {b \o a : a \in ColA, b \in ColB}

\* row.get(f)
row_get(row, f) ==
    IF \E i \in DOMAIN row : row[i].key = f
    THEN row[CHOOSE i \in DOMAIN row : row[i].key = f].value
    ELSE Null

\* (faulty variant: the columns are the keys of the first row, in its order)
data_columns_mutant(list_dict, schema_names) ==
    [i \in DOMAIN list_dict[1] |->
        Item(list_dict[1][i].key,
             [k \in DOMAIN list_dict |-> row_get(list_dict[k], list_dict[1][i].key)])]
\* {f: [row.get(f) for row in list_dict] for f in schema.names}: one item per
\* name of the schema, in the order of schema.names
data_columns(list_dict, schema_names) ==
    [i \in DOMAIN schema_names |->
        Item(schema_names[i],
             [k \in DOMAIN list_dict |-> row_get(list_dict[k], schema_names[i])])]

\* (faulty variant: a value that cannot be cast becomes null)
cast_columns_mutant(columns, schema) ==
    [ok |-> TRUE,
     columns |-> [i \in DOMAIN columns |->
                    [name |-> columns[i].key,
                     cells |-> [k \in DOMAIN columns[i].value |->
                                  IF /\ columns[i].value[k].k # "null"
                                     /\ ~Castable(schema[i].type, columns[i].value[k].s)
                                  THEN Cell(schema[i].type, Null)
                                  ELSE Cell(schema[i].type, columns[i].value[k])]]]]
\* pa.table(columns).cast(schema): the columns of pa.table are the items of
\* the dict in order; cast raises when their names are not schema.names or
\* when a value cannot be cast to the type of its field
cast_columns(columns, schema) ==
    IF \/ [i \in DOMAIN columns |-> columns[i].key] # names(schema)
       \/ \E i \in DOMAIN columns : \E k \in DOMAIN columns[i].value :
             /\ columns[i].value[k].k # "null"
             /\ ~Castable(schema[i].type, columns[i].value[k].s)
    THEN [ok |-> FALSE, columns |-> <<>>]
    ELSE [ok |-> TRUE,
          columns |-> [i \in DOMAIN columns |->
                         [name |-> columns[i].key,
                          cells |-> [k \in DOMAIN columns[i].value |->
                                       Cell(schema[i].type, columns[i].value[k])]]]]

\* create_pyarrow_table, with the order of its columns
create_table_columns(list_dict, schema) ==
    cast_columns(data_columns(list_dict, names(schema)), schema)

BatchInit ==
    /\ input = <<>>
    /\ ppc = "loop"
    /\ schemas = <<>>
    /\ state = None
    /\ queue = <<>>
    /\ cpc = "loop"
    /\ received = <<>>
    /\ records = <<>>
    /\ files_created = <<>>
    /\ file_size = -1
    /\ mpc = "persist"
    /\ stdout = <<>>
    /\ tinput = <<>>
    /\ tpc = "listen"
    /\ max_batch_size = DefaultMaxBatchSize
    /\ max_pyarrow_table_size = DefaultMaxPyarrowTableSize
    /\ target = EmptyTarget
    /\ target_lo = EmptyTarget
    /\ ConfigUnset
    /\ TableIdle
    /\ NameIdle
    /\ EncoderIdle
    /\ field_in \in {[i \in DOMAIN order |->
                        [field_name |-> order[i],
                         input_types |-> BatchInputTypes(order[i]),
                         required_fields |-> {},
                         cast_by_format |-> cf]] :
                     order \in BatchOrders, cf \in BOOLEAN}
    /\ pyarrow_field = <<>>

\* what the steps of the batch leave alone
BatchFixed ==
    <<PersistVars, ConfigVars, EncoderVars, tinput, max_batch_size,
      max_pyarrow_table_size, target, target_lo, compression_method,
      streams_in_separate_folder, now, field_in>>

\* the sink is built: the flattened schema becomes the pyarrow schema
BatchSchema ==
    /\ pyarrow_field = <<>>
    /\ pyarrow_field' =
          flatten_schema_to_pyarrow_schema(
              [properties |-> [i \in DOMAIN field_in |->
                                  [name |-> field_in[i].field_name,
                                   input_types |-> field_in[i].input_types]],
               required |-> {}],
              field_in[1].cast_by_format)
    /\ UNCHANGED <<BatchFixed, raw_records, context_records, tables, tpc, written>>

\* the sink buffers a flattened record
BatchProcessRecord ==
    /\ tpc = "listen"
    /\ pyarrow_field # <<>>
    /\ Len(raw_records) < MaxRows
    /\ \E record \in BatchRecords :
        /\ raw_records' = Append(raw_records, record)
        /\ context_records' = Append(context_records, record)
    /\ UNCHANGED <<BatchFixed, pyarrow_field, tables, tpc, written>>

\* the sink makes a table of the buffered records (concat_tables); an
\* exception of create_pyarrow_table aborts the run
BatchProcessBatch ==
    /\ tpc = "listen"
    /\ context_records # <<>>
    /\ LET new_table == create_table_columns(context_records, pyarrow_field)
       IN IF new_table.ok
          THEN /\ tables' = Append(tables, new_table)
               /\ context_records' = <<>>
               /\ tpc' = tpc
          ELSE /\ tpc' = "failed"
               /\ UNCHANGED <<tables, context_records>>
    /\ UNCHANGED <<BatchFixed, pyarrow_field, raw_records, written>>

\* the sink writes the next table it has made
BatchWriteFile ==
    /\ tpc = "listen"
    /\ Len(written) < Len(tables)
    /\ written' = Append(written,
                         write_parquet_file(config_compression_method,
                                            sink_basename_template("s1", Len(written))))
    /\ UNCHANGED <<BatchFixed, pyarrow_field, raw_records, context_records,
                   tables, tpc>>

BatchNext ==
    \/ BatchSchema
    \/ BatchProcessRecord
    \/ BatchProcessBatch
    \/ BatchWriteFile

BatchSpec == BatchInit /\ [][BatchNext]_vars

(***************************************************************************)
(* Properties of persist_messages, stated over the input read so far       *)
(***************************************************************************)
Positions == 1..Len(input)

\* a SCHEMA message for the stream of input[i] appears before position i
SchemaBefore(i) ==
    \E j \in 1..(i - 1) :
        input[j].type = "SCHEMA" /\ input[j].stream = input[i].stream

\* input[i] is a RECORD the producer accepts
Accepted(i) ==
    /\ input[i].type = "RECORD"
    /\ input[i].ok
    /\ SchemaBefore(i)

\* input[i] is a RECORD for a stream with no earlier SCHEMA
Orphan(i) == input[i].type = "RECORD" /\ ~SchemaBefore(i)

Items == {queue[k] : k \in 1..Len(queue)} \cup {received[k] : k \in 1..Len(received)}

\* record i is buffered by the consumer
Buffered(i) ==
    \E s \in DOMAIN records : \E k \in 1..Len(records[s]) : records[s][k].id = i

\* record i is in a written file
Written(i) ==
    \E f \in 1..Len(files_created) :
        \E k \in 1..Len(files_created[f].rows) : files_created[f].rows[k].id = i

\* C1: a RECORD for a stream with no earlier SCHEMA aborts the run at that
\* message: it is the last message read, the producer has raised and main is
\* aborted, the record is neither enqueued, buffered nor written, and when no
\* file was written before it none is written at all.
C1_RecordBeforeSchemaIsFatal ==
    \A i \in Positions :
        Orphan(i) =>
            /\ i = Len(input)
            /\ ppc = "raised"
            /\ mpc = "aborted"
            /\ stdout = <<>>
            /\ \A it \in Items : it.mtype = "RECORD" => it.id # i
            /\ ~Buffered(i)
            /\ ~Written(i)
            /\ files_created = <<>>

\* C1 witness: after a SCHEMA for one stream, a RECORD of the other stream
\* has been read and the consumer has drained the queue
C1_Witness ==
    /\ Len(input) >= 2
    /\ input[1].type = "SCHEMA"
    /\ Orphan(Len(input))
    /\ input[Len(input)].ok
    /\ ppc = "raised"
    /\ cpc = "done"

\* position of the last STATE message read, 0 when there is none
LastStatePos ==
    IF \E i \in Positions : input[i].type = "STATE"
    THEN CHOOSE i \in Positions :
            /\ input[i].type = "STATE"
            /\ \A j \in Positions : input[j].type = "STATE" => j <= i
    ELSE 0

\* C3: PendingState is the value of the last STATE message when no RECORD was
\* accepted after it, and null otherwise (SCHEMA and unknown messages, and
\* rejected records, leave it unchanged).
C3_PendingStateFollowsMessages ==
    state = IF LastStatePos = 0 THEN None
            ELSE IF \E j \in Positions : j > LastStatePos /\ Accepted(j)
                 THEN None
                 ELSE input[LastStatePos].value

\* C3 witness: SCHEMA, STATE, an accepted RECORD (which nulls the state), then
\* a second STATE with another value, which the producer returned
C3_Witness ==
    /\ Len(input) = 4
    /\ input[1].type = "SCHEMA"
    /\ input[2].type = "STATE"
    /\ Accepted(3)
    /\ input[4].type = "STATE"
    /\ input[4].value # input[2].value
    /\ ppc = "returned"
    /\ state = input[4].value

\* C2 (as claimed): when a STATE value is on stdout, the writer side has
\* finished, no record is buffered and every RECORD accepted before that
\* STATE has been written to a file.
C2_StateReportedOnlyAfterFlush ==
    stdout # <<>> =>
        /\ cpc = "done"
        /\ \A i \in Positions :
            Accepted(i) => (~Buffered(i) /\ Written(i))

\* C4 (as claimed): after finalize (the consumer got EOF and was joined) every
\* accumulator is empty and every accepted RECORD has been written; one
\* SCHEMA followed by two RECORDs gives one file with the two rows in order.
C4_FinalizeFlushesEverything ==
    mpc \in {"joined", "emitted"} =>
        /\ \A s \in DOMAIN records : records[s] = <<>>
        /\ \A i \in Positions : Accepted(i) => Written(i)
        /\ (/\ Len(input) = 3
            /\ input[1].type = "SCHEMA"
            /\ Accepted(2)
            /\ Accepted(3))
           => /\ Len(files_created) = 1
              /\ Len(files_created[1].rows) = 2
              /\ files_created[1].rows[1].id = 2
              /\ files_created[1].rows[2].id = 3

\* C9 (as claimed): with a non-positive threshold no file is written before
\* finalize, and finalize writes the records of each stream as one batch.
C9_NonPositiveThresholdDisabled ==
    file_size <= 0 =>
        /\ (cpc = "loop" => files_created = <<>>)
        /\ (mpc \in {"joined", "emitted"} =>
               \A s \in Streams :
                   (\E i \in Positions : Accepted(i) /\ input[i].stream = s)
                   => \E f \in 1..Len(files_created) :
                        /\ files_created[f].stream = s
                        /\ \A i \in Positions :
                            (Accepted(i) /\ input[i].stream = s)
                            => \E k \in 1..Len(files_created[f].rows) :
                                   files_created[f].rows[k].id = i)

\* C10 (as claimed): once the writer side has got a SCHEMA item that replaces
\* the schema of a stream, the records of that stream it got before, which
\* were accepted under the old schema, have been flushed in a file built with
\* the schema they were accepted under.
C10_FlushBeforeSchemaReplaced ==
    \A k \in 1..Len(received) :
        received[k].mtype = "SCHEMA" =>
            \A j \in 1..(k - 1) :
                (/\ received[j].mtype = "RECORD"
                 /\ received[j].stream = received[k].stream
                 /\ received[j].schema # received[k].schema)
                => \E f \in 1..Len(files_created) :
                      /\ files_created[f].schema = received[j].schema
                      /\ \E r \in 1..Len(files_created[f].rows) :
                            files_created[f].rows[r].id = received[j].id

(***************************************************************************)
(* Properties of the ParquetSink pipeline, stated over the messages read   *)
(***************************************************************************)
TPositions == 1..Len(tinput)

TSchemaBefore(i) ==
    \E j \in 1..(i - 1) :
        tinput[j].type = "SCHEMA" /\ tinput[j].stream = tinput[i].stream

\* the positions of the RECORDs accepted for stream s, in input order
AcceptedIds(s) ==
    LET IsAccepted(i) == /\ tinput[i].type = "RECORD"
                         /\ tinput[i].stream = s
                         /\ TSchemaBefore(i)
    IN SelectSeq([i \in TPositions |-> i], IsAccepted)

RowIds(rows) == [k \in 1..Len(rows) |-> rows[k].id]

\* the ids of the rows of the batches (or files) of stream s, concatenated
RECURSIVE ConcatIds(_, _)
ConcatIds(units, s) ==
    IF units = <<>> THEN <<>>
    ELSE (IF Head(units).stream = s THEN RowIds(Head(units).rows) ELSE <<>>)
         \o ConcatIds(Tail(units), s)

OfStream(units, s) == SelectSeq(units, LAMBDA u : u.stream = s)

\* the bytes of all the records accepted for stream s
RECURSIVE BytesOf(_)
BytesOf(ids) ==
    IF ids = <<>> THEN 0 ELSE tinput[Head(ids)].bytes + BytesOf(Tail(ids))

\* the schema of stream s is never replaced by a different one
SchemaUnchanged(s) ==
    \A i, j \in TPositions :
        (/\ tinput[i].type = "SCHEMA" /\ tinput[i].stream = s
         /\ tinput[j].type = "SCHEMA" /\ tinput[j].stream = s)
        => tinput[i].schema = tinput[j].schema

\* C5: batching loses, duplicates and reorders no record: for every stream
\* and every setting of the thresholds the rows of its files in write order,
\* then of its accumulated table, then of its buffer are the accepted RECORDs
\* in input order (likewise its batches, then its buffer); after finalize the
\* files alone, and the batches alone, hold all of them.
C5_NoRecordLostDuplicatedReordered ==
    \A s \in DOMAIN target.sinks :
        LET sk == target.sinks[s]
        IN /\ ConcatIds(target.files, s) \o RowIds(sk.pyarrow_df)
                  \o RowIds(sk.records) = AcceptedIds(s)
           /\ ConcatIds(target.batches, s) \o RowIds(sk.records) = AcceptedIds(s)
           /\ tpc = "finalized" =>
                /\ sk.records = <<>>
                /\ sk.pyarrow_df = <<>>
                /\ ConcatIds(target.files, s) = AcceptedIds(s)

\* C5 witness: a finalized run in which one stream got three records that
\* went to at least two files
C5_Witness ==
    /\ tpc = "finalized"
    /\ \E s \in DOMAIN target.sinks :
        /\ Len(AcceptedIds(s)) = 3
        /\ Len(OfStream(target.files, s)) >= 2

ResentBeforeEachRecord ==
    \A i \in TPositions :
        tinput[i].type = "RECORD" =>
            /\ i > 1
            /\ tinput[i - 1].type = "SCHEMA"
            /\ tinput[i - 1].stream = tinput[i].stream
            /\ SchemaUnchanged(tinput[i].stream)

\* the records of stream s never fill a table of max_pyarrow_table_size
SizeNotReached(s) ==
    \/ ~Enabled(max_pyarrow_table_size)
    \/ BytesOf(AcceptedIds(s)) < max_pyarrow_table_size * BytesPerMb

SomeRecordKept ==
    \/ target.files # <<>>
    \/ target.batches # <<>>
    \/ \E s \in DOMAIN target.sinks :
          target.sinks[s].records # <<>> \/ target.sinks[s].pyarrow_df # <<>>

\* tinput[i] is a SCHEMA whose columns, with the extra fields, lack a
\* partition column
Offending(i) ==
    /\ tinput[i].type = "SCHEMA"
    /\ ~(partition_cols \subseteq
            (SchemaColumns[tinput[i].schema] \cup DOMAIN extra_fields))

ChosenType(it) ==
    LET t == it.type
        types == IF t.kind = "str" THEN <<t.str>>
                 ELSE IF t.kind = "list" /\ t.items # <<>> THEN t.items
                 ELSE any_of_types(it.anyOf)
        up == [i \in DOMAIN types |-> upper[types[i]]]
        rest == IF \E i \in DOMAIN up : up[i] = "NULL"
                THEN LET n == CHOOSE i \in DOMAIN up :
                                /\ up[i] = "NULL"
                                /\ \A j \in 1..(i - 1) : up[j] # "NULL"
                     IN SubSeq(up, 1, n - 1) \o SubSeq(up, n + 1, Len(up))
                ELSE up
    IN IF rest = <<>> THEN "" ELSE rest[1]

\* the pyarrow type of a chosen type when no format applies
PlainType(chosen) ==
    CASE chosen = "BOOLEAN" -> "bool"
      [] chosen = "INTEGER" -> "int64"
      [] chosen = "NUMBER" -> "double"
      [] OTHER -> "string"

\* C19: cast-by-format is opt-in and applies to string fields only: with
\* cast_by_format enabled a field whose chosen type is string becomes a
\* timestamp column with format "date-time" and a float column with format
\* "singer.decimal"; a field of any other type, or with an unrecognized or
\* absent format, keeps its type; with cast_by_format disabled the format is
\* ignored and a string field stays string.
C19_CastByFormat ==
    \A k \in DOMAIN pyarrow_field :
        LET x == field_in[k]
            f == pyarrow_field[k]
            chosen == ChosenType(x.input_types)
            format == x.input_types.format
        IN /\ f.name = x.field_name
           /\ (x.cast_by_format /\ chosen = "STRING" /\ format = "date-time")
                => f.type = "timestamp[us]"
           /\ (x.cast_by_format /\ chosen = "STRING" /\ format = "singer.decimal")
                => f.type = "double"
           /\ (chosen # "STRING" \/ format \notin {"date-time", "singer.decimal"})
                => f.type = PlainType(chosen)
           /\ ~x.cast_by_format => f.type = PlainType(chosen)

\* C19 witness: with cast_by_format enabled, {"type": ["null", "string"],
\* "format": "date-time"} has become a timestamp field
C19_Witness ==
    /\ pyarrow_field # <<>>
    /\ field_in[1].cast_by_format
    /\ field_in[1].input_types.type = TypeList(<<"null", "string">>)
    /\ field_in[1].input_types.format = "date-time"
    /\ pyarrow_field[1].type = "timestamp[us]"

\* the pyarrow type declared for an extra field
DeclaredType(t) == IF t = "integer" THEN "int64" ELSE "string"

\* the table of the same records without any extra field
PlainTable ==
    create_table([k \in DOMAIN raw_records |-> flatten_record(raw_records[k])],
                 flatten_schema_to_pyarrow_schema(flatten_schema_own, FALSE))

\* C14: with extra fields configured with matching types, the table made of a
\* batch has the schema's own columns first and then the extra-field
\* columns, each with its declared type; every row carries each extra field
\* with its constant value, cast to that type; and the own columns have the
\* types and the values they have without the extra fields.
C14_ExtraFieldsInEveryRow ==
    \A t \in DOMAIN tables :
        LET tb == tables[t]
            own == Len(OwnColumns)
        IN /\ tb.ok
           /\ names(tb.schema)
                = OwnColumns \o [i \in DOMAIN extra_names |-> <<extra_names[i]>>]
           /\ Len(tb.rows) = Len(raw_records)
           /\ \A i \in DOMAIN extra_names :
                /\ tb.schema[own + i].type
                     = DeclaredType(extra_fields_types[extra_names[i]])
                /\ \A k \in DOMAIN tb.rows :
                     /\ <<extra_names[i]>> \in DOMAIN tb.rows[k]
                     /\ tb.rows[k][<<extra_names[i]>>]
                          = [type |-> DeclaredType(extra_fields_types[extra_names[i]]),
                             null |-> FALSE,
                             s |-> extra_fields[extra_names[i]]]
           /\ SubSeq(tb.schema, 1, own) = PlainTable.schema
           /\ \A k \in DOMAIN tb.rows : \A i \in 1..own :
                /\ OwnColumns[i] \in DOMAIN tb.rows[k]
                /\ tb.rows[k][OwnColumns[i]] = PlainTable.rows[k][OwnColumns[i]]

\* C14 witness: extra_fields "field1=value1,field2=1" typed string and
\* integer; a table of two rows was made, the second from a record that has
\* values of its own
C14_Witness ==
    /\ DOMAIN extra_fields = {"field1", "field2"}
    /\ Len(tables) = 1
    /\ Len(tables[1].rows) = 2
    /\ tables[1].rows[2][<<"field2">>] = [type |-> "int64", null |-> FALSE, s |-> "1"]
    /\ ~tables[1].rows[2][<<"field1", "field2", "field3">>].null

\* the value the record has at a path of property names: null when the path
\* leaves the record (a parent that is null, absent or no object) or ends in
\* something that is not a string
RECURSIVE ValueAt(_, _)
ValueAt(v, path) ==
    IF path = <<>> THEN (IF v.k = "str" THEN v ELSE Null)
    ELSE IF v.k = "obj" /\ Head(path) \in Keys(v.o)
         THEN ValueAt(v.o[Head(path)], Tail(path))
         ELSE Null

\* C18: the table is made without error and every row has exactly the columns
\* of the flattened schema (here with the extra fields): a column of the
\* stream's schema holds the value the record has at that path, and null when
\* a parent object is null or absent; a record field the schema does not
\* declare is in no column; properties of the same name at different levels
\* are different columns, each with its own value.
C18_RowsHaveExactlySchemaColumns ==
    \A t \in DOMAIN tables :
        LET tb == tables[t]
        IN /\ tb.ok
           /\ Len(tb.rows) = Len(raw_records)
           /\ \A k \in DOMAIN tb.rows :
                /\ DOMAIN tb.rows[k]
                     = Range(OwnColumns) \cup {<<n>> : n \in DOMAIN extra_fields}
                /\ <<"field7">> \notin DOMAIN tb.rows[k]
                /\ \A i \in DOMAIN OwnColumns :
                     tb.rows[k][OwnColumns[i]]
                       = Cell("string", ValueAt(Obj(raw_records[k]), OwnColumns[i]))

\* C18 witness: a record with field1.field2.field3, a top-level field2.field3
\* of another value and an undeclared field7 has become a row where the two
\* field3 columns hold their own values and field2__field4 (absent) is null;
\* and the row before it came from a record whose field1 is null
C18_Witness ==
    /\ Len(tables) = 1
    /\ Len(tables[1].rows) = 2
    /\ raw_records[1]["field1"] = Null
    /\ tables[1].rows[1][<<"field1", "field2", "field3">>].null
    /\ raw_records[2]["field7"] = Str("undeclared")
    /\ tables[1].rows[2][<<"field1", "field2", "field3">>].s = "test_field3"
    /\ tables[1].rows[2][<<"field2", "field3">>].s = "top_field3"
    /\ tables[1].rows[2][<<"field2", "field4">>].null

C16_UnknownTypeSkipped ==
    [][(/\ Len(input') = Len(input) + 1
        /\ input'[Len(input')].type \in {"ACTIVATE_VERSION", "BATCH"})
       => (/\ ppc' = "loop"
           /\ mpc' = mpc
           /\ schemas' = schemas
           /\ state' = state
           /\ queue' = queue
           /\ records' = records)]_vars

\* C17: at most one line is written to stdout, and only after the producer
\* has read the whole input and the consumer has finished: it is the state
\* the producer returned; when the input has no STATE message (or a RECORD was
\* accepted after the last one) nothing is written.
C17_AtMostOneStateLine ==
    /\ Len(stdout) <= 1
    /\ stdout # <<>> =>
          /\ ppc = "returned"
          /\ cpc = "done"
          /\ mpc = "emitted"
          /\ stdout[1] = state
          /\ LastStatePos # 0
          /\ stdout[1] = input[LastStatePos].value
    /\ (mpc = "emitted" /\ state = None) => stdout = <<>>
    /\ (\A i \in Positions : input[i].type # "STATE") => stdout = <<>>

\* C17 witness: SCHEMA, an accepted RECORD, then STATE; the run has ended and
\* the value of the STATE is the one line on stdout
C17_Witness ==
    /\ Len(input) = 3
    /\ input[1].type = "SCHEMA"
    /\ Accepted(2)
    /\ input[3].type = "STATE"
    /\ mpc = "emitted"
    /\ stdout = <<input[3].value>>

\* the value has a Decimal at some depth
RECURSIVE HasDecimal(_)
HasDecimal(v) ==
    \/ v.k = "decimal"
    \/ v.k = "list" /\ \E i \in DOMAIN v.o : HasDecimal(v.o[i])
    \/ v.k = "dict" /\ \E i \in DOMAIN v.o : HasDecimal(v.o[i].value)

\* the floating-point number of a Decimal
FloatOf(text) ==
    CASE text = "10.5" -> JFloat("10.5")
      [] text = "2.50" -> JFloat("2.5")
      [] text = "3" -> JFloat("3.0")

\* the value with every Decimal replaced by its floating-point number
RECURSIVE WithFloats(_)
WithFloats(v) ==
    CASE v.k = "decimal" -> FloatOf(v.s)
      [] v.k = "list" -> JList([i \in DOMAIN v.o |-> WithFloats(v.o[i])])
      [] v.k = "dict" -> JDict([i \in DOMAIN v.o |->
                                   JItem(v.o[i].key, WithFloats(v.o[i].value))])
      [] OTHER -> v

\* C21: the line written for a state is what the default JSON encoder writes
\* for the state with every Decimal, at any depth of its dicts and lists,
\* replaced by the floating-point number; the encoding never fails; and a
\* state with no Decimal is written exactly as the default encoder writes it.
C21_DecimalsEncodedAsFloats ==
    \A k \in DOMAIN state_json :
        LET st == latest_state[k]
            line == state_json[k]
        IN /\ line.ok
           /\ dumps(WithFloats(st), "JSONEncoder").ok
           /\ line = dumps(WithFloats(st), "JSONEncoder")
           /\ ~HasDecimal(st) => line = dumps(st, "JSONEncoder")

\* C21 witness: {"value1": Decimal("10.5"), "nested": {"value4":
\* [Decimal("2.50"), 3]}} was written as {"value1": 10.5, "nested":
\* {"value4": [2.5, 3]}}
C21_Witness ==
    /\ state_json # <<>>
    /\ latest_state[1]
         = JDict(<<JItem("value1", JDecimal("10.5")),
                   JItem("nested",
                         JDict(<<JItem("value4",
                                       JList(<<JDecimal("2.50"), JInt("3")>>))>>))>>)
    /\ state_json[1].text
         = <<"{", "\"", "value1", "\"", ": ", "10.5", ", ",
             "\"", "nested", "\"", ": ",
             "{", "\"", "value4", "\"", ": ", "[", "2.5", ", ", "3", "]", "}", "}">>

\* input[i] makes the producer raise: a line that cannot be parsed, a message
\* of a type the parser does not know, a RECORD with no SCHEMA before it or a
\* RECORD that fails the validation
FatalAt(i) ==
    \/ input[i].type \in {"UNPARSEABLE", "BATCH"}
    \/ /\ input[i].type = "RECORD"
       /\ ~SchemaBefore(i) \/ ~input[i].ok

\* C22: a fatal error in the input aborts the run: the failing message is the
\* last one read, the producer has raised and main is aborted, no checkpoint
\* line is on stdout; and from then on nothing is flushed: the files written,
\* the records buffered, stdout and the input read stay as they are.
C22_FatalErrorAborts ==
    /\ [](\A i \in Positions :
            FatalAt(i) =>
                /\ i = Len(input)
                /\ ppc = "raised"
                /\ mpc = "aborted"
                /\ stdout = <<>>)
    /\ [][ppc = "raised" =>
             /\ files_created' = files_created
             /\ records' = records
             /\ stdout' = stdout
             /\ input' = input
             /\ ppc' = "raised"
             /\ mpc' = "aborted"]_vars

\* C22 witness: SCHEMA, an accepted RECORD, STATE, then a line that cannot be
\* parsed; the consumer has got everything and stopped; the record was not
\* written and the pending state was not emitted
C22_Witness ==
    /\ Len(input) = 4
    /\ input[1].type = "SCHEMA"
    /\ Accepted(2)
    /\ input[3].type = "STATE"
    /\ input[4].type = "UNPARSEABLE"
    /\ state = input[3].value
    /\ ppc = "raised"
    /\ cpc = "done"
    /\ ~Written(2)
    /\ stdout = <<>>

\* PendingState after the first n messages
RECURSIVE PendingAfter(_)
PendingAfter(n) ==
    IF n = 0 THEN None
    ELSE IF input[n].type = "STATE" THEN input[n].value
    ELSE IF Accepted(n) THEN None
    ELSE PendingAfter(n - 1)

\* input[i] is a RECORD of a stream with a schema that fails the validation
Invalid(i) ==
    /\ input[i].type = "RECORD"
    /\ SchemaBefore(i)
    /\ ~input[i].ok

\* C23: a RECORD that fails the validation against the schema of its stream
\* aborts the whole run: it is the last message read, the producer has raised
\* and main is aborted; the record is neither enqueued, buffered nor written;
\* and PendingState is what it was before the record.
C23_InvalidRecordIsFatal ==
    \A i \in Positions :
        Invalid(i) =>
            /\ i = Len(input)
            /\ ppc = "raised"
            /\ mpc = "aborted"
            /\ \A it \in Items : it.mtype = "RECORD" => it.id # i
            /\ ~Buffered(i)
            /\ ~Written(i)
            /\ state = PendingAfter(i - 1)
            /\ stdout = <<>>

\* C23 witness: SCHEMA, STATE, then a RECORD of that stream that fails the
\* validation: the run is aborted and the state is still pending
C23_Witness ==
    /\ Len(input) = 3
    /\ input[1].type = "SCHEMA"
    /\ input[2].type = "STATE"
    /\ Invalid(3)
    /\ ppc = "raised"
    /\ state = input[2].value
    /\ cpc = "done"

\* the items put on the queue so far, in the order they were put
PutSoFar == received \o queue

EOFCount == Cardinality({k \in DOMAIN PutSoFar : PutSoFar[k].mtype = "EOF"})

\* C26: the producer puts exactly one EOF, as the last item, when the input
\* ends and when a message raises, and none before; the consumer stops on the
\* EOF, with nothing left on the queue; so the consumer always terminates
\* and, once the producer has returned, main gets past the join.
C26_OneEOFAndConsumerStops ==
    /\ [](/\ EOFCount = (IF ppc \in {"returned", "raised"} THEN 1 ELSE 0)
          /\ EOFCount = 1 => PutSoFar[Len(PutSoFar)].mtype = "EOF"
          /\ cpc = "done" <=> (/\ received # <<>>
                               /\ received[Len(received)].mtype = "EOF")
          /\ cpc = "done" => queue = <<>>)
    /\ <>(cpc = "done")
    /\ (ppc = "returned") ~> (mpc \in {"joined", "emitted"})

\* C26 witness: SCHEMA, an accepted RECORD, then a RECORD that raises: the
\* consumer has got the two items and the EOF, and stopped
C26_Witness ==
    /\ Len(input) = 3
    /\ input[1].type = "SCHEMA"
    /\ Accepted(2)
    /\ FatalAt(3)
    /\ ppc = "raised"
    /\ Len(received) = 3
    /\ cpc = "done"

\* the schema of its stream that RECORD n is flattened under
SchemaAt(n) ==
    LET last == CHOOSE j \in 1..(n - 1) :
                    /\ input[j].type = "SCHEMA"
                    /\ input[j].stream = input[n].stream
                    /\ \A l \in (j + 1)..(n - 1) :
                          ~(input[l].type = "SCHEMA" /\ input[l].stream = input[n].stream)
    IN input[last].schema

\* the items of the SCHEMA messages and of the accepted RECORD messages among
\* the first n messages, in input order
RECURSIVE ItemsUpTo(_)
ItemsUpTo(n) ==
    IF n = 0 THEN <<>>
    ELSE ItemsUpTo(n - 1)
         \o (IF input[n].type = "SCHEMA"
             THEN <<SchemaItem(input[n].stream, input[n].schema)>>
             ELSE IF Accepted(n)
             THEN <<RecordItem(input[n].stream, n, SchemaAt(n))>>
             ELSE <<>>)

NoEOF(items) == SelectSeq(items, LAMBDA it : it.mtype # "EOF")

\* C27: the items put on the queue are those of the SCHEMA messages and of the
\* accepted RECORD messages, in input order (STATE and unknown messages put
\* nothing); the consumer gets them in that order, so that every RECORD item
\* it got comes after a SCHEMA item of its stream; and when it has stopped it
\* has got them all.
C27_ItemsInInputOrder ==
    /\ NoEOF(PutSoFar) = ItemsUpTo(Len(input))
    /\ \A k \in DOMAIN received :
          /\ received[k].mtype # "EOF" => received[k] = ItemsUpTo(Len(input))[k]
          /\ received[k].mtype = "RECORD" =>
                \E j \in 1..(k - 1) :
                    /\ received[j].mtype = "SCHEMA"
                    /\ received[j].stream = received[k].stream
    /\ cpc = "done" => NoEOF(received) = ItemsUpTo(Len(input))

\* C27 witness: SCHEMA and RECORD of one stream, a STATE, then the SCHEMA of
\* the other stream; the consumer has stopped with the three items and EOF
C27_Witness ==
    /\ Len(input) = 4
    /\ input[1].type = "SCHEMA"
    /\ Accepted(2)
    /\ input[3].type = "STATE"
    /\ input[4].type = "SCHEMA"
    /\ input[4].stream # input[1].stream
    /\ ppc = "returned"
    /\ cpc = "done"
    /\ Len(received) = 4

\* a batch of stream s is materialized, or a file of it written, in this step
BatchMade(s) ==
    Len(OfStream(target'.batches, s)) > Len(OfStream(target.batches, s))
FileWritten(s) ==
    Len(OfStream(target'.files, s)) > Len(OfStream(target.files, s))

\* the size, in MB, of the records at the given positions of the input
MbOf(ids) == BytesOf(ids) \div BytesPerMb

TypeSet(it) ==
    IF it.type.kind = "str" THEN <<it.type.str>>
    ELSE IF it.type.kind = "list" /\ it.type.items # <<>> THEN it.type.items
    ELSE any_of_types(it.anyOf)

\* "null", in any letter case
IsNull(t) == t \in {"null", "NULL"}

\* C28: a field is nullable exactly when its type set contains "null", in any
\* letter case, or its name is not in the required-fields list; so it is
\* non-nullable only when it is required and its type set has no "null".
C28_NullableIffNullOrNotRequired ==
    \A k \in DOMAIN pyarrow_field :
        LET x == field_in[k]
            types == TypeSet(x.input_types)
        IN pyarrow_field[k].nullable
             = (\/ \E i \in DOMAIN types : IsNull(types[i])
                \/ x.field_name \notin x.required_fields)

\* C28 witness: a required field of type ["string", "null"] has become a
\* nullable field (and, see the formula, one of type "string" has not)
C28_Witness ==
    /\ pyarrow_field # <<>>
    /\ field_in[1].required_fields = {"col_a"}
    /\ field_in[1].input_types.type = TypeList(<<"string", "null">>)
    /\ pyarrow_field[1].nullable

\* the first entry of a type set that is not "null", "" if there is none
FirstNonNull(types) ==
    IF \E i \in DOMAIN types : ~IsNull(types[i])
    THEN types[CHOOSE i \in DOMAIN types :
                  /\ ~IsNull(types[i])
                  /\ \A j \in 1..(i - 1) : IsNull(types[j])]
    ELSE ""

\* the kind of column of a type name
KindOf(t) ==
    CASE t = "boolean" -> "bool"
      [] t = "integer" -> "int64"
      [] t = "number" -> "double"
      [] OTHER -> "string"

\* C29 (as claimed): every field maps to one of boolean, string, integer,
\* float and timestamp; when no format is applied the kind is that of the
\* first non-null entry of its type set (taken from "anyOf" when "type" is
\* absent): array, object, an unknown type and no non-null type give string.
C29_TypeFromFirstNonNull ==
    \A k \in DOMAIN pyarrow_field :
        LET x == field_in[k]
            f == pyarrow_field[k]
        IN /\ f.type \in {"bool", "string", "int64", "double", "timestamp[us]"}
           /\ (~x.cast_by_format \/ x.input_types.format = None)
                => f.type = KindOf(FirstNonNull(TypeSet(x.input_types)))

\* the texts that are numbers
IsNumber(text) == text \in {"1"}

\* one of the rows has, in a column declared as a float, a text that is no
\* number
Uncastable(rows) ==
    \E k \in DOMAIN rows : \E i \in DOMAIN rows[k] : \E f \in DOMAIN pyarrow_field :
        /\ rows[k][i].key = pyarrow_field[f].name
        /\ pyarrow_field[f].type = "double"
        /\ rows[k][i].value.k = "str"
        /\ ~IsNumber(rows[k][i].value.s)

\* the number of rows of the first n tables
RECURSIVE RowsBefore(_)
RowsBefore(n) ==
    IF n = 0 THEN 0
    ELSE RowsBefore(n - 1) + Len(tables[n].columns[1].cells)

\* C24: a value that cannot be cast to the type of its column fails the
\* batch as a whole: no table is made of a buffer that holds such a value and
\* the run is aborted with the buffer as it was; every table that is made has
\* all its cells of the declared types, none changed or dropped, and holds
\* all the records of its batch; a file is only written for a table that was
\* made, and none after the failure.
C24_CastFailureFailsWholeBatch ==
    /\ [](/\ tpc = "failed" => Uncastable(context_records)
          /\ Len(written) <= Len(tables)
          /\ RowsBefore(Len(tables)) + Len(context_records) = Len(raw_records)
          /\ \A t \in DOMAIN tables :
                /\ tables[t].ok
                /\ ~Uncastable(SubSeq(raw_records, RowsBefore(t - 1) + 1, RowsBefore(t)))
                /\ \A i \in DOMAIN tables[t].columns :
                     \A k \in DOMAIN tables[t].columns[i].cells :
                        tables[t].columns[i].cells[k].type = pyarrow_field[i].type)
    /\ [][/\ Uncastable(context_records) =>
                /\ tables' = tables
                /\ context_records' # <<>>
          /\ tpc = "failed" =>
                /\ tables' = tables
                /\ written' = written]_vars

\* C24 witness: with cast_by_format enabled, a first batch was made and
\* written; the second batch, a record with the text "abc" in the float column
\* col_a, failed: no table and no file for it
C24_Witness ==
    /\ field_in[1].cast_by_format
    /\ Len(raw_records) = 2
    /\ Len(tables) = 1
    /\ Len(written) = 1
    /\ Len(context_records) = 1
    /\ row_get(context_records[1], "col_a") = Str("abc")
    /\ tpc = "failed"

\* C30: the fields of the pyarrow schema are in the order the properties are
\* declared in the flattened schema, and so are the columns of every table
\* made from it; each column holds, row by row, the value the record has
\* under that name (null when it has none), whatever the order of the keys of
\* the record; and a buffer without uncastable value always becomes a table.
C30_ColumnsInDeclarationOrder ==
    LET declared == [i \in DOMAIN field_in |-> field_in[i].field_name]
    IN /\ pyarrow_field # <<>> => names(pyarrow_field) = declared
       /\ tpc = "failed" => Uncastable(context_records)
       /\ \A t \in DOMAIN tables :
            /\ [i \in DOMAIN tables[t].columns |-> tables[t].columns[i].name]
                 = declared
            /\ \A i \in DOMAIN tables[t].columns :
                 \A k \in DOMAIN tables[t].columns[i].cells :
                    LET record == raw_records[RowsBefore(t - 1) + k]
                        cell == tables[t].columns[i].cells[k]
                    IN IF \E j \in DOMAIN record :
                             /\ record[j].key = declared[i]
                             /\ record[j].value.k = "str"
                       THEN /\ ~cell.null
                            /\ \E j \in DOMAIN record :
                                  /\ record[j].key = declared[i]
                                  /\ record[j].value.s = cell.s
                       ELSE cell.null

\* C30 witness: the schema declares col_b, then col_a; a table was made of a
\* record with the keys col_a, col_b and a record with the keys col_b, col_a:
\* its columns are col_b, col_a
C30_Witness ==
    /\ Len(field_in) = 2
    /\ field_in[1].field_name = "col_b"
    /\ Len(tables) = 1
    /\ Len(raw_records) = 2
    /\ raw_records[1] = <<Item("col_a", Str("1")), Item("col_b", Str("x"))>>
    /\ raw_records[2] = <<Item("col_b", Str("x")), Item("col_a", Str("1"))>>
    /\ tables[1].columns[1].name = "col_b"
    /\ tables[1].columns[2].name = "col_a"
    /\ tables[1].columns[2].cells[1].s = "1"

=============================================================================
